---- MODULE Spec2Model ----
(***************************************************************************)
(* Dispatch and session-resilience core of the ABAP ADT MCP server         *)
(* (src/src/index.ts): the CallToolRequest handler with its one-shot       *)
(* reconnect-and-retry loop, dispatchTool, isSessionExpired, reconnect,    *)
(* serializeResult and handleError, and the constructor with its           *)
(* environment check, run() and the ListToolsRequest handler.              *)
(*                                                                         *)
(* JavaScript strings are sequences of one-character strings, so that      *)
(* toLowerCase, includes, template literals and JSON.stringify are         *)
(* computed character by character.                                        *)
(***************************************************************************)
EXTENDS Integers, Sequences, FiniteSets, TLC

\* Number of request slots: calls that can be in flight at the same time.
MaxInFlight == 2
\* Largest reading (in ms since the epoch) of the system clock.
MaxClock == 1

Calls == 1..MaxInFlight

----------------------------------------------------------------------------
\* Strings

UpperChars == <<"A","B","C","D","E","F","G","H","I","J","K","L","M",
                "N","O","P","Q","R","S","T","U","V","W","X","Y","Z">>
LowerChars == <<"a","b","c","d","e","f","g","h","i","j","k","l","m",
                "n","o","p","q","r","s","t","u","v","w","x","y","z">>

ToLowerChar(ch) ==
  IF \E i \in 1..Len(UpperChars) : UpperChars[i] = ch
  THEN LowerChars[CHOOSE i \in 1..Len(UpperChars) : UpperChars[i] = ch]
  ELSE ch

\* String.prototype.toLowerCase
toLowerCase(s) == [i \in 1..Len(s) |-> ToLowerChar(s[i])]

\* String.prototype.includes
includes(s, sub) ==
  \E i \in 0..(Len(s) - Len(sub)) : SubSeq(s, i + 1, i + Len(sub)) = sub

DigitChars == <<"0","1","2","3","4","5","6","7","8","9">>

RECURSIVE NatToString(_)
NatToString(n) ==
  IF n < 10 THEN <<DigitChars[n + 1]>>
  ELSE NatToString(n \div 10) \o <<DigitChars[(n % 10) + 1]>>

\* Number.prototype.toString for integers
NumberToString(n) == IF n < 0 THEN <<"-">> \o NatToString(0 - n) ELSE NatToString(n)

----------------------------------------------------------------------------
\* Operation names

LoginName       == <<"l","o","g","i","n">>
LogoutName      == <<"l","o","g","o","u","t">>
DropSessionName == <<"d","r","o","p","S","e","s","s","i","o","n">>
HealthcheckName == <<"h","e","a","l","t","h","c","h","e","c","k">>

\* const AUTH_TOOLS = ['login', 'logout', 'dropSession']
AUTH_TOOLS == {LoginName, LogoutName, DropSessionName}

\* dispatchTool cases routed to this.transportHandlers.handle: transportInfo, createTransport, hasTransportConfig, transportConfigurations, getTransportConfiguration, setTransportsConfig, createTransportsConfig, userTransports, transportsByConfig, transportDelete, transportRelease, transportSetOwner, transportAddUser, systemUsers, transportReference
TransportTools ==
  { <<"t","r","a","n","s","p","o","r","t","I","n","f","o">>,
    <<"c","r","e","a","t","e","T","r","a","n","s","p","o","r","t">>,
    <<"h","a","s","T","r","a","n","s","p","o","r","t","C","o","n","f","i","g">>,
    <<"t","r","a","n","s","p","o","r","t","C","o","n","f","i","g","u","r","a","t","i","o","n","s">>,
    <<"g","e","t","T","r","a","n","s","p","o","r","t","C","o","n","f","i","g","u","r","a","t","i","o","n">>,
    <<"s","e","t","T","r","a","n","s","p","o","r","t","s","C","o","n","f","i","g">>,
    <<"c","r","e","a","t","e","T","r","a","n","s","p","o","r","t","s","C","o","n","f","i","g">>,
    <<"u","s","e","r","T","r","a","n","s","p","o","r","t","s">>,
    <<"t","r","a","n","s","p","o","r","t","s","B","y","C","o","n","f","i","g">>,
    <<"t","r","a","n","s","p","o","r","t","D","e","l","e","t","e">>,
    <<"t","r","a","n","s","p","o","r","t","R","e","l","e","a","s","e">>,
    <<"t","r","a","n","s","p","o","r","t","S","e","t","O","w","n","e","r">>,
    <<"t","r","a","n","s","p","o","r","t","A","d","d","U","s","e","r">>,
    <<"s","y","s","t","e","m","U","s","e","r","s">>,
    <<"t","r","a","n","s","p","o","r","t","R","e","f","e","r","e","n","c","e">> }

\* dispatchTool cases routed to this.objectLockHandlers.handle: lock, unLock
ObjectLockTools ==
  { <<"l","o","c","k">>,
    <<"u","n","L","o","c","k">> }

\* dispatchTool cases routed to this.objectHandlers.handle: objectStructure, searchObject, findObjectPath, objectTypes, reentranceTicket
ObjectTools ==
  { <<"o","b","j","e","c","t","S","t","r","u","c","t","u","r","e">>,
    <<"s","e","a","r","c","h","O","b","j","e","c","t">>,
    <<"f","i","n","d","O","b","j","e","c","t","P","a","t","h">>,
    <<"o","b","j","e","c","t","T","y","p","e","s">>,
    <<"r","e","e","n","t","r","a","n","c","e","T","i","c","k","e","t">> }

\* dispatchTool cases routed to this.classHandlers.handle: classIncludes, classComponents
ClassTools ==
  { <<"c","l","a","s","s","I","n","c","l","u","d","e","s">>,
    <<"c","l","a","s","s","C","o","m","p","o","n","e","n","t","s">> }

\* dispatchTool cases routed to this.codeAnalysisHandlers.handle: syntaxCheckCode, syntaxCheckCdsUrl, codeCompletion, findDefinition, usageReferences, syntaxCheckTypes, codeCompletionFull, runClass, codeCompletionElement, usageReferenceSnippets, fixProposals, fixEdits, fragmentMappings, abapDocumentation
CodeAnalysisTools ==
  { <<"s","y","n","t","a","x","C","h","e","c","k","C","o","d","e">>,
    <<"s","y","n","t","a","x","C","h","e","c","k","C","d","s","U","r","l">>,
    <<"c","o","d","e","C","o","m","p","l","e","t","i","o","n">>,
    <<"f","i","n","d","D","e","f","i","n","i","t","i","o","n">>,
    <<"u","s","a","g","e","R","e","f","e","r","e","n","c","e","s">>,
    <<"s","y","n","t","a","x","C","h","e","c","k","T","y","p","e","s">>,
    <<"c","o","d","e","C","o","m","p","l","e","t","i","o","n","F","u","l","l">>,
    <<"r","u","n","C","l","a","s","s">>,
    <<"c","o","d","e","C","o","m","p","l","e","t","i","o","n","E","l","e","m","e","n","t">>,
    <<"u","s","a","g","e","R","e","f","e","r","e","n","c","e","S","n","i","p","p","e","t","s">>,
    <<"f","i","x","P","r","o","p","o","s","a","l","s">>,
    <<"f","i","x","E","d","i","t","s">>,
    <<"f","r","a","g","m","e","n","t","M","a","p","p","i","n","g","s">>,
    <<"a","b","a","p","D","o","c","u","m","e","n","t","a","t","i","o","n">> }

\* dispatchTool cases routed to this.objectSourceHandlers.handle: getObjectSource, setObjectSource
ObjectSourceTools ==
  { <<"g","e","t","O","b","j","e","c","t","S","o","u","r","c","e">>,
    <<"s","e","t","O","b","j","e","c","t","S","o","u","r","c","e">> }

\* dispatchTool cases routed to this.objectDeletionHandlers.handle: deleteObject
ObjectDeletionTools ==
  { <<"d","e","l","e","t","e","O","b","j","e","c","t">> }

\* dispatchTool cases routed to this.objectManagementHandlers.handle: activateObjects, activateByName, inactiveObjects
ObjectManagementTools ==
  { <<"a","c","t","i","v","a","t","e","O","b","j","e","c","t","s">>,
    <<"a","c","t","i","v","a","t","e","B","y","N","a","m","e">>,
    <<"i","n","a","c","t","i","v","e","O","b","j","e","c","t","s">> }

\* dispatchTool cases routed to this.objectRegistrationHandlers.handle: objectRegistrationInfo, validateNewObject, createObject
ObjectRegistrationTools ==
  { <<"o","b","j","e","c","t","R","e","g","i","s","t","r","a","t","i","o","n","I","n","f","o">>,
    <<"v","a","l","i","d","a","t","e","N","e","w","O","b","j","e","c","t">>,
    <<"c","r","e","a","t","e","O","b","j","e","c","t">> }

\* dispatchTool cases routed to this.nodeHandlers.handle: nodeContents, mainPrograms
NodeTools ==
  { <<"n","o","d","e","C","o","n","t","e","n","t","s">>,
    <<"m","a","i","n","P","r","o","g","r","a","m","s">> }

\* dispatchTool cases routed to this.discoveryHandlers.handle: featureDetails, collectionFeatureDetails, findCollectionByUrl, loadTypes, adtDiscovery, adtCoreDiscovery, adtCompatibiliyGraph
DiscoveryTools ==
  { <<"f","e","a","t","u","r","e","D","e","t","a","i","l","s">>,
    <<"c","o","l","l","e","c","t","i","o","n","F","e","a","t","u","r","e","D","e","t","a","i","l","s">>,
    <<"f","i","n","d","C","o","l","l","e","c","t","i","o","n","B","y","U","r","l">>,
    <<"l","o","a","d","T","y","p","e","s">>,
    <<"a","d","t","D","i","s","c","o","v","e","r","y">>,
    <<"a","d","t","C","o","r","e","D","i","s","c","o","v","e","r","y">>,
    <<"a","d","t","C","o","m","p","a","t","i","b","i","l","i","y","G","r","a","p","h">> }

\* dispatchTool cases routed to this.unitTestHandlers.handle: unitTestRun, unitTestEvaluation, unitTestOccurrenceMarkers, createTestInclude
UnitTestTools ==
  { <<"u","n","i","t","T","e","s","t","R","u","n">>,
    <<"u","n","i","t","T","e","s","t","E","v","a","l","u","a","t","i","o","n">>,
    <<"u","n","i","t","T","e","s","t","O","c","c","u","r","r","e","n","c","e","M","a","r","k","e","r","s">>,
    <<"c","r","e","a","t","e","T","e","s","t","I","n","c","l","u","d","e">> }

\* dispatchTool cases routed to this.prettyPrinterHandlers.handle: prettyPrinterSetting, setPrettyPrinterSetting, prettyPrinter
PrettyPrinterTools ==
  { <<"p","r","e","t","t","y","P","r","i","n","t","e","r","S","e","t","t","i","n","g">>,
    <<"s","e","t","P","r","e","t","t","y","P","r","i","n","t","e","r","S","e","t","t","i","n","g">>,
    <<"p","r","e","t","t","y","P","r","i","n","t","e","r">> }

\* dispatchTool cases routed to this.gitHandlers.handle: gitRepos, gitExternalRepoInfo, gitCreateRepo, gitPullRepo, gitUnlinkRepo, stageRepo, pushRepo, checkRepo, remoteRepoInfo, switchRepoBranch
GitTools ==
  { <<"g","i","t","R","e","p","o","s">>,
    <<"g","i","t","E","x","t","e","r","n","a","l","R","e","p","o","I","n","f","o">>,
    <<"g","i","t","C","r","e","a","t","e","R","e","p","o">>,
    <<"g","i","t","P","u","l","l","R","e","p","o">>,
    <<"g","i","t","U","n","l","i","n","k","R","e","p","o">>,
    <<"s","t","a","g","e","R","e","p","o">>,
    <<"p","u","s","h","R","e","p","o">>,
    <<"c","h","e","c","k","R","e","p","o">>,
    <<"r","e","m","o","t","e","R","e","p","o","I","n","f","o">>,
    <<"s","w","i","t","c","h","R","e","p","o","B","r","a","n","c","h">> }

\* dispatchTool cases routed to this.ddicHandlers.handle: annotationDefinitions, ddicElement, ddicRepositoryAccess, packageSearchHelp
DdicTools ==
  { <<"a","n","n","o","t","a","t","i","o","n","D","e","f","i","n","i","t","i","o","n","s">>,
    <<"d","d","i","c","E","l","e","m","e","n","t">>,
    <<"d","d","i","c","R","e","p","o","s","i","t","o","r","y","A","c","c","e","s","s">>,
    <<"p","a","c","k","a","g","e","S","e","a","r","c","h","H","e","l","p">> }

\* dispatchTool cases routed to this.serviceBindingHandlers.handle: publishServiceBinding, unPublishServiceBinding, bindingDetails
ServiceBindingTools ==
  { <<"p","u","b","l","i","s","h","S","e","r","v","i","c","e","B","i","n","d","i","n","g">>,
    <<"u","n","P","u","b","l","i","s","h","S","e","r","v","i","c","e","B","i","n","d","i","n","g">>,
    <<"b","i","n","d","i","n","g","D","e","t","a","i","l","s">> }

\* dispatchTool cases routed to this.queryHandlers.handle: tableContents, runQuery
QueryTools ==
  { <<"t","a","b","l","e","C","o","n","t","e","n","t","s">>,
    <<"r","u","n","Q","u","e","r","y">> }

\* dispatchTool cases routed to this.feedHandlers.handle: feeds, dumps
FeedTools ==
  { <<"f","e","e","d","s">>,
    <<"d","u","m","p","s">> }

\* dispatchTool cases routed to this.debugHandlers.handle: debuggerListeners, debuggerListen, debuggerDeleteListener, debuggerSetBreakpoints, debuggerDeleteBreakpoints, debuggerAttach, debuggerSaveSettings, debuggerStackTrace, debuggerVariables, debuggerChildVariables, debuggerStep, debuggerGoToStack, debuggerSetVariableValue
DebugTools ==
  { <<"d","e","b","u","g","g","e","r","L","i","s","t","e","n","e","r","s">>,
    <<"d","e","b","u","g","g","e","r","L","i","s","t","e","n">>,
    <<"d","e","b","u","g","g","e","r","D","e","l","e","t","e","L","i","s","t","e","n","e","r">>,
    <<"d","e","b","u","g","g","e","r","S","e","t","B","r","e","a","k","p","o","i","n","t","s">>,
    <<"d","e","b","u","g","g","e","r","D","e","l","e","t","e","B","r","e","a","k","p","o","i","n","t","s">>,
    <<"d","e","b","u","g","g","e","r","A","t","t","a","c","h">>,
    <<"d","e","b","u","g","g","e","r","S","a","v","e","S","e","t","t","i","n","g","s">>,
    <<"d","e","b","u","g","g","e","r","S","t","a","c","k","T","r","a","c","e">>,
    <<"d","e","b","u","g","g","e","r","V","a","r","i","a","b","l","e","s">>,
    <<"d","e","b","u","g","g","e","r","C","h","i","l","d","V","a","r","i","a","b","l","e","s">>,
    <<"d","e","b","u","g","g","e","r","S","t","e","p">>,
    <<"d","e","b","u","g","g","e","r","G","o","T","o","S","t","a","c","k">>,
    <<"d","e","b","u","g","g","e","r","S","e","t","V","a","r","i","a","b","l","e","V","a","l","u","e">> }

\* dispatchTool cases routed to this.renameHandlers.handle: renameEvaluate, renamePreview, renameExecute
RenameTools ==
  { <<"r","e","n","a","m","e","E","v","a","l","u","a","t","e">>,
    <<"r","e","n","a","m","e","P","r","e","v","i","e","w">>,
    <<"r","e","n","a","m","e","E","x","e","c","u","t","e">> }

\* dispatchTool cases routed to this.atcHandlers.handle: atcCustomizing, atcCheckVariant, createAtcRun, atcWorklists, atcUsers, atcExemptProposal, atcRequestExemption, isProposalMessage, atcContactUri, atcChangeContact
AtcTools ==
  { <<"a","t","c","C","u","s","t","o","m","i","z","i","n","g">>,
    <<"a","t","c","C","h","e","c","k","V","a","r","i","a","n","t">>,
    <<"c","r","e","a","t","e","A","t","c","R","u","n">>,
    <<"a","t","c","W","o","r","k","l","i","s","t","s">>,
    <<"a","t","c","U","s","e","r","s">>,
    <<"a","t","c","E","x","e","m","p","t","P","r","o","p","o","s","a","l">>,
    <<"a","t","c","R","e","q","u","e","s","t","E","x","e","m","p","t","i","o","n">>,
    <<"i","s","P","r","o","p","o","s","a","l","M","e","s","s","a","g","e">>,
    <<"a","t","c","C","o","n","t","a","c","t","U","r","i">>,
    <<"a","t","c","C","h","a","n","g","e","C","o","n","t","a","c","t">> }

\* dispatchTool cases routed to this.traceHandlers.handle: tracesList, tracesListRequests, tracesHitList, tracesDbAccess, tracesStatements, tracesSetParameters, tracesCreateConfiguration, tracesDeleteConfiguration, tracesDelete
TraceTools ==
  { <<"t","r","a","c","e","s","L","i","s","t">>,
    <<"t","r","a","c","e","s","L","i","s","t","R","e","q","u","e","s","t","s">>,
    <<"t","r","a","c","e","s","H","i","t","L","i","s","t">>,
    <<"t","r","a","c","e","s","D","b","A","c","c","e","s","s">>,
    <<"t","r","a","c","e","s","S","t","a","t","e","m","e","n","t","s">>,
    <<"t","r","a","c","e","s","S","e","t","P","a","r","a","m","e","t","e","r","s">>,
    <<"t","r","a","c","e","s","C","r","e","a","t","e","C","o","n","f","i","g","u","r","a","t","i","o","n">>,
    <<"t","r","a","c","e","s","D","e","l","e","t","e","C","o","n","f","i","g","u","r","a","t","i","o","n">>,
    <<"t","r","a","c","e","s","D","e","l","e","t","e">> }

\* dispatchTool cases routed to this.refactorHandlers.handle: extractMethodEvaluate, extractMethodPreview, extractMethodExecute
RefactorTools ==
  { <<"e","x","t","r","a","c","t","M","e","t","h","o","d","E","v","a","l","u","a","t","e">>,
    <<"e","x","t","r","a","c","t","M","e","t","h","o","d","P","r","e","v","i","e","w">>,
    <<"e","x","t","r","a","c","t","M","e","t","h","o","d","E","x","e","c","u","t","e">> }

\* dispatchTool cases routed to this.revisionHandlers.handle: revisions
RevisionTools ==
  { <<"r","e","v","i","s","i","o","n","s">> }

\* The cases of the switch in dispatchTool, in source order: the names of a
\* case group and the handler field the group delegates to.
DispatchCases ==
  << [names |-> TransportTools,          handler |-> "transportHandlers"],
     [names |-> ObjectLockTools,         handler |-> "objectLockHandlers"],
     [names |-> ObjectTools,             handler |-> "objectHandlers"],
     [names |-> ClassTools,              handler |-> "classHandlers"],
     [names |-> CodeAnalysisTools,       handler |-> "codeAnalysisHandlers"],
     [names |-> ObjectSourceTools,       handler |-> "objectSourceHandlers"],
     [names |-> ObjectDeletionTools,     handler |-> "objectDeletionHandlers"],
     [names |-> ObjectManagementTools,   handler |-> "objectManagementHandlers"],
     [names |-> ObjectRegistrationTools, handler |-> "objectRegistrationHandlers"],
     [names |-> NodeTools,               handler |-> "nodeHandlers"],
     [names |-> DiscoveryTools,          handler |-> "discoveryHandlers"],
     [names |-> UnitTestTools,           handler |-> "unitTestHandlers"],
     [names |-> PrettyPrinterTools,      handler |-> "prettyPrinterHandlers"],
     [names |-> GitTools,                handler |-> "gitHandlers"],
     [names |-> DdicTools,               handler |-> "ddicHandlers"],
     [names |-> ServiceBindingTools,     handler |-> "serviceBindingHandlers"],
     [names |-> QueryTools,              handler |-> "queryHandlers"],
     [names |-> FeedTools,               handler |-> "feedHandlers"],
     [names |-> DebugTools,              handler |-> "debugHandlers"],
     [names |-> RenameTools,             handler |-> "renameHandlers"],
     [names |-> AtcTools,                handler |-> "atcHandlers"],
     [names |-> TraceTools,              handler |-> "traceHandlers"],
     [names |-> RefactorTools,           handler |-> "refactorHandlers"],
     [names |-> RevisionTools,           handler |-> "revisionHandlers"] >>

\* Every name some case of the switch delegates to a handler.
ProviderNames == UNION {DispatchCases[i].names : i \in 1..Len(DispatchCases)}

\* The handler field of the first case that lists the name.
HandlerOf(name) ==
  DispatchCases[CHOOSE i \in 1..Len(DispatchCases) :
                  /\ name \in DispatchCases[i].names
                  /\ \A j \in 1..(i - 1) : name \notin DispatchCases[j].names].handler

----------------------------------------------------------------------------
\* Thrown values

\* ErrorCode of the protocol SDK
MethodNotFound == -32601
InternalError  == -32603

\* new McpError(code, message)
McpError(code, message) ==
  [cls |-> "McpError", message |-> message, code |-> code, csrf |-> FALSE]

\* new Error(message)
Error(message) ==
  [cls |-> "Error", message |-> message, code |-> 0, csrf |-> FALSE]

\* An error of the ADT client library that its isCsrfError classifies as a
\* CSRF-token / session-timeout failure.
AdtCsrfError(message) ==
  [cls |-> "Error", message |-> message, code |-> 0, csrf |-> TRUE]

\* A thrown value that is not an Error; message holds String(value).
NonError(str) ==
  [cls |-> "value", message |-> str, code |-> 0, csrf |-> FALSE]

\* error instanceof Error
InstanceOfError(error) == error.cls \in {"Error", "McpError"}

\* isCsrfError of abap-adt-api
isCsrfError(error) == error.csrf

SessionTimedOutText == <<"s","e","s","s","i","o","n"," ","t","i","m","e","d"," ","o","u","t">>
CsrfTokenText       == <<"c","s","r","f"," ","t","o","k","e","n">>

\* isSessionExpired that compares the message as it is written.
isSessionExpired_CaseSensitive(error) ==
  IF isCsrfError(error) THEN TRUE
  ELSE IF InstanceOfError(error)
       THEN includes(error.message, SessionTimedOutText) \/ includes(error.message, CsrfTokenText)
       ELSE FALSE

\* isSessionExpired
isSessionExpired(error) ==
  IF isCsrfError(error) THEN TRUE
  ELSE IF InstanceOfError(error)
       THEN LET msg == toLowerCase(error.message)
            IN  includes(msg, SessionTimedOutText) \/ includes(msg, CsrfTokenText)
       ELSE FALSE

----------------------------------------------------------------------------
\* JSON

\* Values handed to JSON.stringify: strings, numbers, bigints, objects (an
\* ordered list of key/value properties), an object that contains itself and
\* an object whose toJSON method throws.
JsString(s)      == [t |-> "string", s |-> s]
JsNumber(n)      == [t |-> "number", n |-> n]
JsBigInt(digits) == [t |-> "bigint", digits |-> digits]
JsObject(props)  == [t |-> "object", props |-> props]
JsCircular       == [t |-> "circular"]
JsThrowing(message) == [t |-> "throwing", message |-> message]

\* JSON string literal: quotes and backslashes are escaped
RECURSIVE EscapeChars(_)
EscapeChars(s) ==
  IF s = <<>> THEN <<>>
  ELSE (IF Head(s) \in {"\"", "\\"} THEN <<"\\", Head(s)>> ELSE <<Head(s)>>)
       \o EscapeChars(Tail(s))

Quote(s) == <<"\"">> \o EscapeChars(s) \o <<"\"">>

\* BigIntReplacer that leaves every value as it is.
BigIntReplacer_Identity(value) == value

\* The replacer of serializeResult:
\*   (key, value) => typeof value === 'bigint' ? value.toString() : value
BigIntReplacer(value) ==
  IF value.t = "bigint" THEN JsString(value.digits) ELSE value

\* The messages of the TypeErrors JSON.stringify throws.
CircularText == <<"C","o","n","v","e","r","t","i","n","g"," ","c","i","r","c","u","l","a","r"," ","s","t","r","u","c","t","u","r","e"," ","t","o"," ","J","S","O","N">>
BigIntText   == <<"D","o"," ","n","o","t"," ","k","n","o","w"," ","h","o","w"," ","t","o"," ","s","e","r","i","a","l","i","z","e"," ","a"," ","B","i","g","I","n","t">>

\* JSON.stringify(value, replacer): [ok |-> TRUE, text |-> ...] or, when it
\* throws (circular structure, bigint left in place, a throwing toJSON),
\* [ok |-> FALSE, error |-> the value thrown].
RECURSIVE Stringify(_, _)
RECURSIVE StringifyProps(_, _, _)
StringifyProps(props, i, useReplacer) ==
  IF i > Len(props) THEN [ok |-> TRUE, text |-> <<>>]
  ELSE LET v    == Stringify(props[i][2], useReplacer)
           rest == StringifyProps(props, i + 1, useReplacer)
       IN  IF ~v.ok THEN v
           ELSE IF ~rest.ok THEN rest
           ELSE [ok |-> TRUE,
                 text |-> (IF i > 1 THEN <<",">> ELSE <<>>)
                          \o Quote(props[i][1]) \o <<":">> \o v.text \o rest.text]

Stringify(value, useReplacer) ==
  LET v == IF useReplacer THEN BigIntReplacer(value) ELSE value
  IN  CASE v.t = "string"   -> [ok |-> TRUE, text |-> Quote(v.s)]
        [] v.t = "number"   -> [ok |-> TRUE, text |-> NumberToString(v.n)]
        [] v.t = "object"   ->
             LET body == StringifyProps(v.props, 1, useReplacer)
             IN  IF body.ok THEN [ok |-> TRUE, text |-> <<"{">> \o body.text \o <<"}">>]
                 ELSE body
        [] v.t = "circular" -> [ok |-> FALSE, error |-> Error(CircularText)]
        [] v.t = "bigint"   -> [ok |-> FALSE, error |-> Error(BigIntText)]
        [] v.t = "throwing" -> [ok |-> FALSE, error |-> Error(v.message)]

----------------------------------------------------------------------------
\* Response envelopes

ErrorKey == <<"e","r","r","o","r">>
CodeKey  == <<"c","o","d","e">>
InternalServerErrorText  == <<"I","n","t","e","r","n","a","l"," ","s","e","r","v","e","r"," ","e","r","r","o","r">>
FailedToSerializeText    == <<"F","a","i","l","e","d"," ","t","o"," ","s","e","r","i","a","l","i","z","e"," ","r","e","s","u","l","t">>
UnknownToolText          == <<"U","n","k","n","o","w","n"," ","t","o","o","l",":"," ">>
RetryExhaustionText      == <<"U","n","e","x","p","e","c","t","e","d"," ","r","e","t","r","y"," ","e","x","h","a","u","s","t","i","o","n">>

\* { content: [{ type: 'text', text }], isError: true }
ErrorEnvelope(message, code) ==
  [content |-> << [type |-> "text",
                   text |-> Stringify(JsObject(<< <<ErrorKey, JsString(message)>>,
                                                 <<CodeKey, JsNumber(code)>> >>),
                                      FALSE).text] >>,
   isError |-> TRUE]

\* handleError that passes the message of every failure through.
handleError_LeaksMessage(error) ==
  ErrorEnvelope(error.message, IF error.cls = "McpError" THEN error.code ELSE InternalError)

\* handleError
handleError(error) ==
  LET e == IF ~InstanceOfError(error) THEN Error(error.message) ELSE error
  IN  IF e.cls = "McpError"
      THEN ErrorEnvelope(e.message, e.code)
      ELSE ErrorEnvelope(InternalServerErrorText, InternalError)

\* serializeResult that reports a failure of JSON.stringify without the
\* isError flag.
serializeResult_Unflagged(result) ==
  LET json == Stringify(result, TRUE)
  IN  [content |-> << [type |-> "text",
                       text |-> IF json.ok THEN json.text
                                ELSE handleError(McpError(InternalError, FailedToSerializeText)).content[1].text] >>]

\* serializeResult
serializeResult(result) ==
  LET json == Stringify(result, TRUE)
  IN  IF json.ok
      THEN [content |-> << [type |-> "text", text |-> json.text] >>]
      ELSE handleError(McpError(InternalError, FailedToSerializeText))

----------------------------------------------------------------------------
\* Inputs

LockName       == <<"l","o","c","k">>
NotARealName   == <<"n","o","t","A","R","e","a","l","O","p","e","r","a","t","i","o","n">>
\* A name outside the dispatch table whose text contains an expiry phrase.
CsrfLookingName == <<"C","S","R","F"," ","t","o","k","e","n">>

\* Names a client sends.
CallNames ==
  {LoginName, LogoutName, DropSessionName, LockName, HealthcheckName,
   NotARealName, CsrfLookingName}

\* request.params.arguments
CallArgs == {"argsA", "argsB"}

\* Values a handler, or a call of the ADT client, can throw.
Failures ==
  { McpError(InternalError, <<"S","e","s","s","i","o","n"," ","T","i","m","e","d"," ","O","u","t">>),
    AdtCsrfError(<<"F","o","r","b","i","d","d","e","n">>),
    Error(<<"b","a","d"," ","c","s","r","f"," ","t","o","k","e","n">>),
    McpError(InternalError, <<"L","o","c","k","e","d">>),
    Error(<<"R","e","s","e","t">>),
    NonError(<<"c","s","r","f"," ","t","o","k","e","n">>) }

\* Values a handler can return.
Results ==
  { JsObject(<< <<<<"n">>, JsNumber(1)>> >>),
    JsObject(<< <<<<"i","d">>, JsBigInt(<<"9","0","0","7","1","9","9","2","5","4","7","4","0","9","9","3">>)>> >>),
    JsObject(<< <<<<"s","e","l","f">>, JsCircular>> >>),
    JsObject(<< <<<<"a","t">>, JsThrowing(<<"C","S","R","F"," ","t","o","k","e","n"," ","m","i","s","s","i","n","g">>)>> >>) }

\* Outcome of an awaited call: a value or a thrown failure.
Resolved(value) == [ok |-> TRUE, value |-> value]
Rejected(e)     == [ok |-> FALSE, error |-> e]

\* What a handler's handle(name, args), or a call of the ADT client, can
\* settle with.
RemoteOutcomes ==
  {Resolved(r) : r \in Results} \cup {Rejected(e) : e \in Failures}

\* The inputs of the runs with several calls in flight.
ConcNames == CallNames
ConcArgs  == {"argsA"}
ConcOutcomes ==
  { Resolved(JsObject(<< <<<<"n">>, JsNumber(1)>> >>)),
    Rejected(McpError(InternalError, <<"S","e","s","s","i","o","n"," ","T","i","m","e","d"," ","O","u","t">>)),
    Rejected(AdtCsrfError(<<"F","o","r","b","i","d","d","e","n">>)),
    Rejected(McpError(InternalError, <<"L","o","c","k","e","d">>)) }

\* new Date().toISOString(), for clock readings below one second
toISOString(ms) ==
  <<"1","9","7","0","-","0","1","-","0","1","T","0","0",":","0","0",":","0","0",".">>
  \o (IF ms < 100 THEN <<"0">> ELSE <<>>) \o (IF ms < 10 THEN <<"0">> ELSE <<>>)
  \o NatToString(ms) \o <<"Z">>

StatusKey    == <<"s","t","a","t","u","s">>
HealthyText  == <<"h","e","a","l","t","h","y">>
TimestampKey == <<"t","i","m","e","s","t","a","m","p">>

\* dispatchTool that delegates healthcheck to a handler like any other name.
dispatchTool_HealthViaHandler(name, args, handlerOutcomes) ==
  IF name \in ProviderNames \cup {HealthcheckName} THEN handlerOutcomes
  ELSE {Rejected(McpError(MethodNotFound, UnknownToolText \o name))}

\* dispatchTool: what dispatchTool(name, args) can settle with, when the
\* handler it delegates to can settle with handlerOutcomes.
dispatchTool(name, args, handlerOutcomes) ==
  IF name \in ProviderNames THEN handlerOutcomes
  ELSE IF name = HealthcheckName
  THEN {Resolved(JsObject(<< <<StatusKey, JsString(HealthyText)>>,
                            <<TimestampKey, JsString(toISOString(ms))>> >>)) :
          ms \in 0..MaxClock}
  ELSE {Rejected(McpError(MethodNotFound, UnknownToolText \o name))}

----------------------------------------------------------------------------
\* State

VARIABLES
  pc,        \* per call: where the CallToolRequest handler is suspended
  name,      \* per call: request.params.name
  args,      \* per call: request.params.arguments
  attempt,   \* per call: the loop counter of the retry loop
  error,     \* per call: the failure caught in the current loop iteration
  result,    \* per call: the value the dispatch resolved with
  reconnectError, \* per call: the failure caught from reconnect (logged)
  response,  \* per call: the envelopes the handler has returned
  trace,     \* per call: the calls the handler has issued, in order
  session,   \* the ADT client: its stateful flag and the server-side session
  env,       \* process.env: the value of each required variable
  boot,      \* the steps of the constructor and of run() taken so far
  startupError, \* the failure the constructor threw
  tools,     \* per handler field: the descriptors its getTools() returns
  catalog    \* the tools of the last ListTools reply

vars == <<pc, name, args, attempt, error, result, reconnectError, response, trace, session,
          env, boot, startupError, tools, catalog>>

\* What no step of a CallTool request changes.
bootVars == <<env, boot, startupError, tools, catalog>>

NoName  == <<>>
NoArgs  == "none"
NoError == [cls |-> "none"]
NoResult == [t |-> "none"]

\* The loop bound of `for (let attempt = 0; attempt < 2; attempt++)`
MaxAttempts == 2

\* loopContinues that ends the loop after its first iteration.
loopContinues_OneIteration(att) == att < MaxAttempts - 1

\* The loop condition `attempt < 2`, tested after `attempt++`.
loopContinues(att) == att < MaxAttempts

\* The variables the constructor requires.
SAP_URL      == <<"S","A","P","_","U","R","L">>
SAP_USER     == <<"S","A","P","_","U","S","E","R">>
SAP_PASSWORD == <<"S","A","P","_","P","A","S","S","W","O","R","D">>
RequiredVars == << SAP_URL, SAP_USER, SAP_PASSWORD >>

\* process.env[v]: undefined, the empty string or a string with content.
Undefined       == [set |-> FALSE]
EnvString(text) == [set |-> TRUE, text |-> text]
EnvValues       == {Undefined, EnvString(<<>>), EnvString(<<"x">>)}

\* Every environment the process can start in.
Environments == [{RequiredVars[i] : i \in 1..Len(RequiredVars)} -> EnvValues]

\* isMissing that takes an empty string for a value.
isMissing_UnsetOnly(value) == ~value.set

\* `!process.env[v]`
isMissing(value) == ~value.set \/ value.text = <<>>

\* ['SAP_URL', 'SAP_USER', 'SAP_PASSWORD'].filter(v => !process.env[v])
RECURSIVE filterMissing(_, _)
filterMissing(vs, e) ==
  IF vs = <<>> THEN <<>>
  ELSE (IF isMissing(e[Head(vs)]) THEN <<Head(vs)>> ELSE <<>>) \o filterMissing(Tail(vs), e)

missingVars(e) == filterMissing(RequiredVars, e)

\* Array.prototype.join
RECURSIVE join(_, _)
join(strs, sep) ==
  IF strs = <<>> THEN <<>>
  ELSE IF Len(strs) = 1 THEN Head(strs)
  ELSE Head(strs) \o sep \o join(Tail(strs), sep)

MissingVarsText == <<"M","i","s","s","i","n","g"," ","r","e","q","u","i","r","e","d"," ","e","n","v","i","r","o","n","m","e","n","t"," ","v","a","r","i","a","b","l","e","s",":"," ">>

\* The steps of the constructor after the environment check, and of run().
ConstructorSteps ==
  << "checkEnv", "newADTClient", "setStateful", "newHandlers", "setupToolHandlers" >>
ServingSteps == ConstructorSteps \o << "connect" >>

\* The request handlers are registered and the transport is connected.
Serving == boot = ServingSteps

\* The handler fields in the order in which ListTools spreads their tools.
ProviderOrder ==
  << "authHandlers", "transportHandlers", "objectHandlers", "classHandlers",
     "codeAnalysisHandlers", "objectLockHandlers", "objectSourceHandlers",
     "objectDeletionHandlers", "objectManagementHandlers", "objectRegistrationHandlers",
     "nodeHandlers", "discoveryHandlers", "unitTestHandlers", "prettyPrinterHandlers",
     "gitHandlers", "ddicHandlers", "serviceBindingHandlers", "queryHandlers",
     "feedHandlers", "debugHandlers", "renameHandlers", "atcHandlers", "traceHandlers",
     "refactorHandlers", "revisionHandlers" >>
Providers == {ProviderOrder[i] : i \in 1..Len(ProviderOrder)}

\* A descriptor a handler's getTools() returns.
Tool(n) ==
  [name |-> n, description |-> "provided",
   inputSchema |-> [type |-> "object", properties |-> <<"objectUrl">>]]

\* The descriptor ListTools adds itself.
HealthcheckTool ==
  [name |-> HealthcheckName, description |-> "Check server health and connectivity",
   inputSchema |-> [type |-> "object", properties |-> <<>>]]

TransportInfoName == <<"t","r","a","n","s","p","o","r","t","I","n","f","o">>
UnLockName        == <<"u","n","L","o","c","k">>
RevisionsName     == <<"r","e","v","i","s","i","o","n","s">>

\* What the getTools() of three of the handlers can return: the lists of a
\* registry with distinct names, and lists that repeat a name within a
\* handler, across handlers, or take the name healthcheck.
AuthToolLists      == { << Tool(LoginName) >>,
                        << Tool(LoginName), Tool(LogoutName), Tool(DropSessionName) >> }
TransportToolLists == { <<>>, << Tool(TransportInfoName) >>, << Tool(LockName) >>,
                        << Tool(HealthcheckName) >> }
LockToolLists      == { << Tool(LockName), Tool(UnLockName) >>,
                        << Tool(LockName), Tool(LockName) >> }

ToolConfigs ==
  { [h \in Providers |->
       CASE h = "authHandlers"       -> a
         [] h = "transportHandlers"  -> t
         [] h = "objectLockHandlers" -> l
         [] h = "revisionHandlers"   -> << Tool(RevisionsName) >>
         [] OTHER                    -> <<>>] :
    a \in AuthToolLists, t \in TransportToolLists, l \in LockToolLists }

\* The lists of the handlers in the runs that start after construction.
DefaultTools ==
  [h \in Providers |->
     CASE h = "authHandlers"       -> << Tool(LoginName), Tool(LogoutName), Tool(DropSessionName) >>
       [] h = "transportHandlers"  -> << Tool(TransportInfoName) >>
       [] h = "objectLockHandlers" -> << Tool(LockName), Tool(UnLockName) >>
       [] h = "revisionHandlers"   -> << Tool(RevisionsName) >>
       [] OTHER                    -> <<>>]

\* No ListTools reply yet (a reply holds at least the healthcheck descriptor).
NoCatalog == <<>>
NoSession == [stateful |-> "none", conn |-> "none"]

\* After the constructor and run(): every required variable has a value, the
\* client is created and set to stateful, the request handlers are registered;
\* nothing is logged in yet and no request is being handled.
Init ==
  /\ pc       = [c \in Calls |-> "idle"]
  /\ name     = [c \in Calls |-> NoName]
  /\ args     = [c \in Calls |-> NoArgs]
  /\ attempt  = [c \in Calls |-> 0]
  /\ error    = [c \in Calls |-> NoError]
  /\ result   = [c \in Calls |-> NoResult]
  /\ reconnectError = [c \in Calls |-> NoError]
  /\ response = [c \in Calls |-> <<>>]
  /\ trace    = [c \in Calls |-> <<>>]
  /\ session  = [stateful |-> "stateful", conn |-> "disconnected"]
  /\ env      = [v \in {RequiredVars[i] : i \in 1..Len(RequiredVars)} |-> EnvString(<<"x">>)]
  /\ boot     = ServingSteps
  /\ startupError = NoError
  /\ tools    = DefaultTools
  /\ catalog  = NoCatalog

\* The process starts: nothing is constructed yet.
Start ==
  /\ pc       = [c \in Calls |-> "idle"]
  /\ name     = [c \in Calls |-> NoName]
  /\ args     = [c \in Calls |-> NoArgs]
  /\ attempt  = [c \in Calls |-> 0]
  /\ error    = [c \in Calls |-> NoError]
  /\ result   = [c \in Calls |-> NoResult]
  /\ reconnectError = [c \in Calls |-> NoError]
  /\ response = [c \in Calls |-> <<>>]
  /\ trace    = [c \in Calls |-> <<>>]
  /\ session  = NoSession
  /\ env \in Environments
  /\ boot     = <<>>
  /\ startupError = NoError
  /\ tools \in ToolConfigs
  /\ catalog  = NoCatalog

\* A handler whose return value has not been taken by the transport yet
\* hands it over before anything else runs.
Settled == {"done", "unhandled"}
NoneSettled == \A c \in Calls : pc[c] \notin Settled

----------------------------------------------------------------------------
\* Effects of the ADT client's calls on the session

\* adtClient.login(): a successful login opens a session.
AfterLogin(s, ok) == IF ok THEN [s EXCEPT !.conn = "active"] ELSE s

\* adtClient.dropSession(): the client goes stateless and, when the request
\* gets through, the server-side session is gone.
AfterDropSession(s, ok) ==
  [stateful |-> "stateless", conn |-> IF ok THEN "disconnected" ELSE s.conn]

\* adtClient.logout()
AfterLogout(s, ok) ==
  [stateful |-> "stateless", conn |-> IF ok THEN "disconnected" ELSE s.conn]

\* authHandlers.handle(name, args): the session-management operation the
\* name stands for.
AfterAuth(s, n, ok) ==
  CASE n = LoginName       -> AfterLogin(s, ok)
    [] n = LogoutName      -> AfterLogout(s, ok)
    [] n = DropSessionName -> AfterDropSession(s, ok)
    [] OTHER               -> s

----------------------------------------------------------------------------
\* The CallToolRequest handler

\* What the handler does with its promise: return an envelope or throw.
Return(envelope) == [kind |-> "return", envelope |-> envelope]
Throw(e)         == [kind |-> "throw", error |-> e]

\* The handler of call c completes.
Finish(c, outcome) ==
  /\ pc' = [pc EXCEPT ![c] = IF outcome.kind = "return" THEN "done" ELSE "unhandled"]
  /\ response' = [response EXCEPT ![c] =
                    IF outcome.kind = "return" THEN Append(@, outcome.envelope) ELSE @]

\* bypassesRetry that leaves dropSession to the retry loop.
bypassesRetry_NoDropSession(n) == n \in {LoginName, LogoutName}

\* AUTH_TOOLS.includes(name)
bypassesRetry(n) == n \in AUTH_TOOLS

\* dispatchRequest that does not keep the arguments for the retry.
dispatchRequest_DropsArgs(att, n, a) ==
  [name |-> n, args |-> IF att = 0 THEN a ELSE NoArgs]

\* this.dispatchTool(name, args) of the loop body: what is dispatched in
\* iteration `att`.
dispatchRequest(att, n, a) == [name |-> n, args |-> a]

\* The calls one dispatchTool(name, args) issues before it suspends.
DispatchEvents(req) ==
  << [op |-> "dispatch", name |-> req.name, args |-> req.args] >>
  \o (IF req.name \in ProviderNames
      THEN << [op |-> "provider", handler |-> HandlerOf(req.name),
               name |-> req.name, args |-> req.args] >>
      ELSE <<>>)

\* The dispatch call c is waiting for.
LastDispatch(t) ==
  t[CHOOSE i \in 1..Len(t) :
      /\ t[i].op = "dispatch"
      /\ \A j \in (i + 1)..Len(t) : t[j].op # "dispatch"]

\* shouldReconnect without the test of the failure.
shouldReconnect_AnyFailure(att, e) == att = 0

\* shouldReconnect without the test of the attempt counter.
shouldReconnect_AnyAttempt(att, e) == isSessionExpired(e)

\* shouldReconnect that leaves the reconnect to a call that is already at it.
shouldReconnect_SingleFlight(att, e) ==
  /\ att = 0
  /\ isSessionExpired(e)
  /\ \A d \in Calls : pc[d] \notin {"drop_await", "login_await"}

\* `attempt === 0 && this.isSessionExpired(error)`
shouldReconnect(att, e) == att = 0 /\ isSessionExpired(e)

\* onResolved that lets the failure of JSON.stringify escape into the
\* enclosing try block.
onResolved_SerializeThrows(value) ==
  IF Stringify(value, TRUE).ok THEN Return(serializeResult(value))
  ELSE Throw(Stringify(value, TRUE).error)

\* return this.serializeResult(result), in either branch: serializeResult
\* catches what JSON.stringify throws, so the statement always returns.
onResolved(value) == Return(serializeResult(value))

\* The try block of the auth branch and of the loop body, once the awaited
\* call has settled with o: what it returns, or the failure its catch gets.
tryBlock(o) == IF o.ok THEN onResolved(o.value) ELSE Throw(o.error)

\* onDispatchFailed that reports a failed retry differently.
onDispatchFailed_MarksRetry(att, e) ==
  IF att = 0 THEN Return(handleError(e))
  ELSE Return(handleError(McpError(InternalError, RetryExhaustionText)))

\* The last statement of the loop's catch block: return this.handleError(error)
onDispatchFailed(att, e) == Return(handleError(e))

\* onReconnectFailed that lets the failure of the reconnect escape.
onReconnectFailed_Rethrows(e, re) == Throw(re)

\* onReconnectFailed that reports the failure of the reconnect.
onReconnectFailed_ReportsReconnect(e, re) == Return(handleError(re))

\* catch (reconnectError) { ...; return this.handleError(error); }
onReconnectFailed(e, re) == Return(handleError(e))

\* catch (error) { return this.handleError(error); } of the auth branch
onAuthFailed(e) == Return(handleError(e))

\* The fall-through after the loop.
onLoopExit == Return(handleError(Error(RetryExhaustionText)))

\* A request arrives; the handler runs up to its first await: either
\* authHandlers.handle or the first dispatchTool.
Arrive(c, n, a) ==
  /\ Serving
  /\ NoneSettled
  /\ pc[c] = "idle"
  /\ name' = [name EXCEPT ![c] = n]
  /\ args' = [args EXCEPT ![c] = a]
  /\ attempt' = [attempt EXCEPT ![c] = 0]
  /\ IF bypassesRetry(n)
     THEN /\ pc' = [pc EXCEPT ![c] = "auth_await"]
          /\ trace' = [trace EXCEPT ![c] = << [op |-> "auth", name |-> n, args |-> a] >>]
     ELSE /\ pc' = [pc EXCEPT ![c] = "dispatch_await"]
          /\ trace' = [trace EXCEPT ![c] = DispatchEvents(dispatchRequest(0, n, a))]
  /\ UNCHANGED <<error, result, reconnectError, response, session>>
  /\ UNCHANGED bootVars

\* authHandlers.handle settles with o.
AuthReturn(c, o) ==
  /\ NoneSettled
  /\ pc[c] = "auth_await"
  /\ session' = AfterAuth(session, name[c], o.ok)
  /\ result' = IF o.ok THEN [result EXCEPT ![c] = o.value] ELSE result
  /\ IF tryBlock(o).kind = "return"
     THEN /\ Finish(c, tryBlock(o))
          /\ UNCHANGED error
     ELSE /\ error' = [error EXCEPT ![c] = tryBlock(o).error]
          /\ Finish(c, onAuthFailed(tryBlock(o).error))
  /\ UNCHANGED <<name, args, attempt, reconnectError, trace>>
  /\ UNCHANGED bootVars

\* dispatchTool settles: return the serialized result, start the reconnect
\* sequence (up to the await of dropSession), or return the error.
DispatchReturn(c, handlerOutcomes) ==
  /\ NoneSettled
  /\ pc[c] = "dispatch_await"
  /\ \E o \in dispatchTool(LastDispatch(trace[c]).name, LastDispatch(trace[c]).args,
                           handlerOutcomes) :
       /\ result' = IF o.ok THEN [result EXCEPT ![c] = o.value] ELSE result
       /\ IF tryBlock(o).kind = "return"
          THEN /\ Finish(c, tryBlock(o))
               /\ UNCHANGED <<error, trace>>
          ELSE /\ error' = [error EXCEPT ![c] = tryBlock(o).error]
               /\ IF shouldReconnect(attempt[c], tryBlock(o).error)
                  THEN /\ pc' = [pc EXCEPT ![c] = "drop_await"]
                       /\ trace' = [trace EXCEPT ![c] = Append(@, [op |-> "dropSession"])]
                       /\ UNCHANGED response
                  ELSE /\ Finish(c, onDispatchFailed(attempt[c], tryBlock(o).error))
                       /\ UNCHANGED trace
  /\ UNCHANGED <<name, args, attempt, reconnectError, session>>
  /\ UNCHANGED bootVars

\* DropReturn that gives up the reconnect when dropSession fails.
DropReturn_Propagates(c, ok) ==
  /\ NoneSettled
  /\ pc[c] = "drop_await"
  /\ session' = AfterDropSession(session, ok)
  /\ IF ok
     THEN /\ trace' = [trace EXCEPT ![c] =
                         @ \o << [op |-> "dropSettled", ok |-> ok],
                                 [op |-> "setStateful"],
                                 [op |-> "login"] >>]
          /\ pc' = [pc EXCEPT ![c] = "login_await"]
          /\ UNCHANGED response
     ELSE /\ trace' = [trace EXCEPT ![c] = Append(@, [op |-> "dropSettled", ok |-> ok])]
          /\ Finish(c, onReconnectFailed(error[c], error[c]))
  /\ UNCHANGED <<name, args, attempt, error, result, reconnectError>>
  /\ UNCHANGED bootVars

\* reconnect: dropSession settles (a failure is ignored), the client is set
\* to stateful and login is awaited.
DropReturn(c, ok) ==
  /\ NoneSettled
  /\ pc[c] = "drop_await"
  /\ session' = [AfterDropSession(session, ok) EXCEPT !.stateful = "stateful"]
  /\ trace' = [trace EXCEPT ![c] =
                 @ \o << [op |-> "dropSettled", ok |-> ok],
                         [op |-> "setStateful"],
                         [op |-> "login"] >>]
  /\ pc' = [pc EXCEPT ![c] = "login_await"]
  /\ UNCHANGED <<name, args, attempt, error, result, reconnectError, response>>
  /\ UNCHANGED bootVars

\* LoginReturn that goes on with the next iteration whether login succeeded
\* or failed.
LoginReturn_RetriesAnyway(c, o) ==
  /\ NoneSettled
  /\ pc[c] = "login_await"
  /\ loopContinues(attempt[c] + 1)
  /\ session' = AfterLogin(session, o.ok)
  /\ attempt' = [attempt EXCEPT ![c] = @ + 1]
  /\ trace' = [trace EXCEPT ![c] =
                 @ \o DispatchEvents(dispatchRequest(attempt[c] + 1, name[c], args[c]))]
  /\ pc' = [pc EXCEPT ![c] = "dispatch_await"]
  /\ UNCHANGED <<name, args, error, result, reconnectError, response>>
  /\ UNCHANGED bootVars

\* reconnect: login settles with o. On success the loop continues with the
\* next iteration, or, when the loop condition fails, the handler falls
\* through to the return after the loop; on failure the original error is
\* returned.
LoginReturn(c, o) ==
  /\ NoneSettled
  /\ pc[c] = "login_await"
  /\ session' = AfterLogin(session, o.ok)
  /\ IF o.ok
     THEN IF loopContinues(attempt[c] + 1)
          THEN /\ attempt' = [attempt EXCEPT ![c] = @ + 1]
               /\ trace' = [trace EXCEPT ![c] =
                              @ \o DispatchEvents(dispatchRequest(attempt[c] + 1, name[c], args[c]))]
               /\ pc' = [pc EXCEPT ![c] = "dispatch_await"]
               /\ UNCHANGED <<reconnectError, response>>
          ELSE /\ attempt' = [attempt EXCEPT ![c] = @ + 1]
               /\ trace' = [trace EXCEPT ![c] = Append(@, [op |-> "fallThrough"])]
               /\ Finish(c, onLoopExit)
               /\ UNCHANGED reconnectError
     ELSE /\ reconnectError' = [reconnectError EXCEPT ![c] = o.error]
          /\ Finish(c, onReconnectFailed(error[c], o.error))
          /\ UNCHANGED <<attempt, trace>>
  /\ UNCHANGED <<name, args, error, result>>
  /\ UNCHANGED bootVars

\* The transport takes the handler's result; the slot is free again.
Deliver(c) ==
  /\ pc[c] \in Settled
  /\ pc' = [pc EXCEPT ![c] = "idle"]
  /\ name' = [name EXCEPT ![c] = NoName]
  /\ args' = [args EXCEPT ![c] = NoArgs]
  /\ attempt' = [attempt EXCEPT ![c] = 0]
  /\ error' = [error EXCEPT ![c] = NoError]
  /\ result' = [result EXCEPT ![c] = NoResult]
  /\ reconnectError' = [reconnectError EXCEPT ![c] = NoError]
  /\ response' = [response EXCEPT ![c] = <<>>]
  /\ trace' = [trace EXCEPT ![c] = <<>>]
  /\ UNCHANGED session
  /\ UNCHANGED bootVars

\* The server lets the session time out.
SessionExpire ==
  /\ NoneSettled
  /\ session.conn = "active"
  /\ session' = [session EXCEPT !.conn = "expired"]
  /\ UNCHANGED <<pc, name, args, attempt, error, result, reconnectError, response, trace>>
  /\ UNCHANGED bootVars

----------------------------------------------------------------------------
\* Startup and the catalog

\* new AbapAdtServer(): the environment check, then the client, its stateful
\* flag, the handlers and the request handlers.
Construct ==
  /\ boot = <<>>
  /\ IF missingVars(env) # <<>>
     THEN /\ boot' = << "checkEnv" >>
          /\ startupError' = Error(MissingVarsText \o join(missingVars(env), <<",", " ">>))
          /\ UNCHANGED session
     ELSE /\ boot' = ConstructorSteps
          /\ session' = [stateful |-> "stateful", conn |-> "disconnected"]
          /\ UNCHANGED startupError
  /\ UNCHANGED <<pc, name, args, attempt, error, result, reconnectError, response, trace>>
  /\ UNCHANGED <<env, tools, catalog>>

\* server.run(): the transport is connected, or the process exits.
Run(ok) ==
  /\ boot = ConstructorSteps
  /\ boot' = Append(boot, IF ok THEN "connect" ELSE "exit")
  /\ UNCHANGED <<pc, name, args, attempt, error, result, reconnectError, response, trace>>
  /\ UNCHANGED <<session, env, startupError, tools, catalog>>

\* listTools that puts its own descriptor first.
listTools_HealthcheckFirst(t) ==
  << HealthcheckTool >> \o
  t["authHandlers"] \o t["transportHandlers"] \o t["objectHandlers"] \o t["classHandlers"] \o
  t["codeAnalysisHandlers"] \o t["objectLockHandlers"] \o t["objectSourceHandlers"] \o
  t["objectDeletionHandlers"] \o t["objectManagementHandlers"] \o
  t["objectRegistrationHandlers"] \o t["nodeHandlers"] \o t["discoveryHandlers"] \o
  t["unitTestHandlers"] \o t["prettyPrinterHandlers"] \o t["gitHandlers"] \o
  t["ddicHandlers"] \o t["serviceBindingHandlers"] \o t["queryHandlers"] \o
  t["feedHandlers"] \o t["debugHandlers"] \o t["renameHandlers"] \o t["atcHandlers"] \o
  t["traceHandlers"] \o t["refactorHandlers"] \o t["revisionHandlers"]

\* The tools of the ListTools reply, when the handlers' getTools() return t.
listTools(t) ==
  t["authHandlers"] \o t["transportHandlers"] \o t["objectHandlers"] \o t["classHandlers"] \o
  t["codeAnalysisHandlers"] \o t["objectLockHandlers"] \o t["objectSourceHandlers"] \o
  t["objectDeletionHandlers"] \o t["objectManagementHandlers"] \o
  t["objectRegistrationHandlers"] \o t["nodeHandlers"] \o t["discoveryHandlers"] \o
  t["unitTestHandlers"] \o t["prettyPrinterHandlers"] \o t["gitHandlers"] \o
  t["ddicHandlers"] \o t["serviceBindingHandlers"] \o t["queryHandlers"] \o
  t["feedHandlers"] \o t["debugHandlers"] \o t["renameHandlers"] \o t["atcHandlers"] \o
  t["traceHandlers"] \o t["refactorHandlers"] \o t["revisionHandlers"] \o
  << HealthcheckTool >>

\* The ListTools request handler.
ListTools ==
  /\ Serving
  /\ NoneSettled
  /\ catalog' = listTools(tools)
  /\ UNCHANGED <<pc, name, args, attempt, error, result, reconnectError, response, trace>>
  /\ UNCHANGED <<session, env, boot, startupError, tools>>

----------------------------------------------------------------------------
\* Specifications

\* One call at a time, over the full input sets.
OneCall == {1}

Next ==
  \/ \E c \in OneCall, n \in CallNames, a \in CallArgs : Arrive(c, n, a)
  \/ \E c \in OneCall, o \in RemoteOutcomes : AuthReturn(c, o)
  \/ \E c \in OneCall : DispatchReturn(c, RemoteOutcomes)
  \/ \E c \in OneCall, ok \in BOOLEAN : DropReturn(c, ok)
  \/ \E c \in OneCall, o \in RemoteOutcomes : LoginReturn(c, o)
  \/ \E c \in OneCall : Deliver(c)
  \/ SessionExpire

Spec == Init /\ [][Next]_vars

\* Up to MaxInFlight calls in flight, interleaved at their awaits.
NextConc ==
  \/ \E c \in Calls, n \in ConcNames, a \in ConcArgs : Arrive(c, n, a)
  \/ \E c \in Calls, o \in ConcOutcomes : AuthReturn(c, o)
  \/ \E c \in Calls : DispatchReturn(c, ConcOutcomes)
  \/ \E c \in Calls, ok \in BOOLEAN : DropReturn(c, ok)
  \/ \E c \in Calls, o \in ConcOutcomes : LoginReturn(c, o)
  \/ \E c \in Calls : Deliver(c)
  \/ SessionExpire

SpecConc == Init /\ [][NextConc]_vars

\* From the start of the process: construction, run(), then ListTools and one
\* call at a time.
NextBoot ==
  \/ Construct
  \/ \E ok \in BOOLEAN : Run(ok)
  \/ ListTools
  \/ \E c \in OneCall, n \in ConcNames, a \in ConcArgs : Arrive(c, n, a)
  \/ \E c \in OneCall, o \in ConcOutcomes : AuthReturn(c, o)
  \/ \E c \in OneCall : DispatchReturn(c, ConcOutcomes)
  \/ \E c \in OneCall, ok \in BOOLEAN : DropReturn(c, ok)
  \/ \E c \in OneCall, o \in ConcOutcomes : LoginReturn(c, o)
  \/ \E c \in OneCall : Deliver(c)
  \/ SessionExpire

SpecBoot == Start /\ [][NextBoot]_vars

\* Every remote call the handler of c awaits (the handler's handle, the
\* client's dropSession and login) eventually settles, and the transport
\* eventually takes a returned result.
Settle(c) ==
  \/ \E o \in RemoteOutcomes : AuthReturn(c, o)
  \/ DispatchReturn(c, RemoteOutcomes)
  \/ \E ok \in BOOLEAN : DropReturn(c, ok)
  \/ \E o \in RemoteOutcomes : LoginReturn(c, o)

LiveSpec ==
  Spec /\ \A c \in OneCall : WF_vars(Settle(c)) /\ WF_vars(Deliver(c))

TypeOK ==
  /\ pc \in [Calls -> {"idle", "auth_await", "dispatch_await", "drop_await",
                       "login_await", "done", "unhandled"}]
  /\ attempt \in [Calls -> 0..MaxAttempts]
  /\ session.stateful \in {"stateful", "stateless", "none"}
  /\ session.conn \in {"active", "expired", "disconnected", "none"}
  /\ env \in Environments
  /\ tools \in ToolConfigs \cup {DefaultTools}

----------------------------------------------------------------------------
\* Properties

\* Number of events of trace t whose op is `op`.
Count(t, op) == Cardinality({i \in 1..Len(t) : t[i].op = op})

\* The op fields of the events of t in order, restricted to `ops`.
RECURSIVE OpsOf(_, _)
OpsOf(t, ops) ==
  IF t = <<>> THEN <<>>
  ELSE (IF Head(t).op \in ops THEN <<Head(t).op>> ELSE <<>>) \o OpsOf(Tail(t), ops)

\* C1: every call of a non-session-management operation dispatches at most
\* twice and starts at most one reconnect sequence, whatever the outcomes and
\* however the calls interleave; the attempt counter and the issued calls of
\* a call change only in that call's own steps.
C1_BoundedAttempts ==
  /\ [](\A c \in Calls :
          /\ Count(trace[c], "dispatch") <= 2
          /\ Count(trace[c], "dropSession") <= 1
          /\ Count(trace[c], "login") <= 1
          /\ attempt[c] <= 1)
  /\ [][\A c \in Calls :
          pc'[c] = pc[c] => attempt'[c] = attempt[c] /\ trace'[c] = trace[c]]_vars

\* A call that used both dispatches and its reconnect while another call,
\* still on its first attempt, is in flight.
C1_Witness ==
  \E c, d \in Calls :
    /\ c # d
    /\ pc[c] = "done" /\ attempt[c] = 1
    /\ Count(trace[c], "dispatch") = 2 /\ Count(trace[c], "dropSession") = 1
    /\ isSessionExpired(error[c]) /\ result[c] = NoResult
    /\ pc[d] = "dispatch_await" /\ attempt[d] = 0

\* The dispatch events of trace t, in order.
IsDispatch(ev) == ev.op = "dispatch"
Dispatches(t) == SelectSeq(t, IsDispatch)

\* The steps of a call that the retry protocol orders.
ProtocolOps == {"dispatch", "dropSession", "login"}

\* Call c has returned after a first dispatch that failed, a reconnect that
\* succeeded and a second dispatch that succeeded.
RetriedOk(c) == pc[c] = "done" /\ attempt[c] = 1 /\ result[c] # NoResult

\* The envelope of a result whose JSON text is `text`.
SuccessEnvelope(text) == [content |-> << [type |-> "text", text |-> text] >>]

\* The order and the arguments of a retried call's steps.
RetriedSteps(c) ==
  /\ isSessionExpired(error[c])
  /\ OpsOf(trace[c], ProtocolOps) = <<"dispatch", "dropSession", "login", "dispatch">>
  /\ Dispatches(trace[c]) =
       << [op |-> "dispatch", name |-> name[c], args |-> args[c]],
          [op |-> "dispatch", name |-> name[c], args |-> args[c]] >>

\* C2: a call whose first dispatch fails with an expiry error, whose
\* reconnect succeeds and whose second dispatch succeeds does exactly
\* dispatch, reconnect, dispatch in this order, the second dispatch with the
\* name and arguments of the first, and returns the envelope of the second
\* result: the success envelope, without isError, of every result the codec
\* can encode (the codec's internal-error envelope when it cannot).
C2_RetryOnce ==
  \A c \in Calls :
    RetriedOk(c) =>
      /\ RetriedSteps(c)
      /\ response[c] =
           << IF Stringify(result[c], TRUE).ok
              THEN SuccessEnvelope(Stringify(result[c], TRUE).text)
              ELSE ErrorEnvelope(FailedToSerializeText, InternalError) >>

\* A lock call that was retried after an expiry error and returned the
\* encoded second result.
C2_Witness ==
  \E c \in Calls :
    /\ RetriedOk(c)
    /\ name[c] = LockName
    /\ Stringify(result[c], TRUE).ok
    /\ "isError" \notin DOMAIN response[c][1]

\* Call c has returned because its reconnect failed.
ReconnectFailed(c) ==
  /\ pc[c] = "done"
  /\ trace[c] # <<>>
  /\ trace[c][Len(trace[c])].op = "login"

\* The JSON text of the envelope starts with {"error":"<message>",
HasErrorMessage(envelope, message) ==
  LET text   == envelope.content[1].text
      prefix == <<"{">> \o Quote(ErrorKey) \o <<":">> \o Quote(message) \o <<",">>
  IN  Len(text) >= Len(prefix) /\ SubSeq(text, 1, Len(prefix)) = prefix

\* The error envelope the error normalizer is specified to produce for a
\* failure e: message and code of a structured protocol error, the fixed
\* internal error for anything else.
NormalizedEnvelope(e) ==
  IF e.cls = "McpError"
  THEN ErrorEnvelope(e.message, e.code)
  ELSE ErrorEnvelope(InternalServerErrorText, InternalError)

\* C3 as stated: when the first dispatch fails with an expiry error e and the
\* reconnect then fails with r, the envelope has isError = true and carries
\* the message of e, for structured protocol errors and plain errors alike.
C3_Original ==
  \A c \in Calls :
    ReconnectFailed(c) =>
      /\ response[c][1].isError = TRUE
      /\ HasErrorMessage(response[c][1], error[c].message)

\* C3 amended: when the first dispatch fails with an expiry error e and the
\* reconnect then fails with r, the envelope has isError = true and is the
\* normalized envelope of e, never that of r: it carries the message and code
\* of e when e is a structured protocol error, and the fixed message
\* "Internal server error" with the internal-error code for any other e.
C3_OriginalErrorKept ==
  \A c \in Calls :
    ReconnectFailed(c) =>
      /\ isSessionExpired(error[c])
      /\ reconnectError[c] # NoError
      /\ Len(response[c]) = 1
      /\ response[c][1].isError = TRUE
      /\ response[c][1] = NormalizedEnvelope(error[c])
      /\ error[c].cls = "McpError" => HasErrorMessage(response[c][1], error[c].message)
      /\ (reconnectError[c].cls = "McpError" /\ reconnectError[c].message # error[c].message)
           => ~HasErrorMessage(response[c][1], reconnectError[c].message)

\* A reconnect that failed with a structured error whose message differs
\* from the message of the original structured error.
C3_Witness ==
  \E c \in Calls :
    /\ ReconnectFailed(c)
    /\ error[c].cls = "McpError"
    /\ reconnectError[c].cls = "McpError"
    /\ reconnectError[c].message # error[c].message

\* The first dispatch of call c has settled and the call returned without a
\* reconnect: the dispatch succeeded, or failed with a failure for which the
\* session-expiry predicate is false.
ReturnedAtFirstAttempt(c) ==
  /\ pc[c] = "done"
  /\ name[c] \notin AUTH_TOOLS
  /\ attempt[c] = 0
  /\ \/ result[c] # NoResult
     \/ error[c] # NoError /\ ~isSessionExpired(error[c])

\* C4: a call starts a reconnect sequence exactly in the step in which the
\* first dispatch of a non-session-management call fails with a failure for
\* which the session-expiry predicate is true. A call whose first dispatch
\* succeeds, or fails with any other failure, dispatches once (its handler,
\* when the operation has one, is invoked once), issues no dropSession and
\* no login, and none of its steps changes the session.
C4_ReconnectIffExpired ==
  /\ [][\A c \in Calls :
          (Count(trace'[c], "dropSession") > Count(trace[c], "dropSession"))
          <=> /\ pc[c] = "dispatch_await"
              /\ name[c] \notin AUTH_TOOLS
              /\ attempt[c] = 0
              /\ error'[c] # NoError
              /\ result'[c] = NoResult
              /\ isSessionExpired(error'[c])]_vars
  /\ [](\A c \in Calls :
          ReturnedAtFirstAttempt(c) =>
            /\ Count(trace[c], "dispatch") = 1
            /\ Count(trace[c], "provider") = (IF name[c] \in ProviderNames THEN 1 ELSE 0)
            /\ Count(trace[c], "dropSession") = 0
            /\ Count(trace[c], "login") = 0
            /\ Len(trace[c]) = Count(trace[c], "dispatch") + Count(trace[c], "provider"))
  /\ [][\A c \in Calls :
          (pc[c] \in {"idle", "dispatch_await"} /\ pc'[c] # pc[c]
           /\ pc'[c] \in {"dispatch_await", "done"} /\ attempt'[c] = 0)
          => session' = session]_vars

\* A lock call that returned after one handler invocation failed with a
\* failure for which the predicate is false.
C4_Witness ==
  \E c \in Calls :
    /\ ReturnedAtFirstAttempt(c)
    /\ name[c] = LockName
    /\ error[c] # NoError
    /\ Count(trace[c], "provider") = 1
    /\ session.conn = "expired"

\* The name of call c is outside the dispatch table and is no
\* session-management name.
UnknownName(c) ==
  /\ name[c] # NoName
  /\ name[c] \notin AUTH_TOOLS \cup ProviderNames \cup {HealthcheckName}

\* C5: for every name that is neither a session-management name nor in the
\* dispatch table, whatever its text, the call invokes no handler, is not
\* retried, performs no reconnect (no dropSession, no login) and returns the
\* method-not-found error envelope whose message carries the name.
C5_UnknownNameNotRetried ==
  \A c \in Calls :
    UnknownName(c) =>
      /\ Count(trace[c], "provider") = 0
      /\ Count(trace[c], "dispatch") <= 1
      /\ Count(trace[c], "dropSession") = 0
      /\ Count(trace[c], "login") = 0
      /\ pc[c] = "done" =>
           response[c] = << ErrorEnvelope(UnknownToolText \o name[c], MethodNotFound) >>

\* C6: a call named login, logout or dropSession invokes the
\* session-management handler exactly once and nothing else (no dispatch, no
\* reconnect, no second invocation), whatever that invocation settles with;
\* a failure, also one for which the session-expiry predicate is true, is
\* returned as the normalized error envelope of that invocation.
C6_AuthBypassesRetry ==
  \A c \in Calls :
    name[c] \in AUTH_TOOLS =>
      /\ trace[c] = << [op |-> "auth", name |-> name[c], args |-> args[c]] >>
      /\ attempt[c] = 0
      /\ pc[c] \in {"auth_await", "done"}
      /\ pc[c] = "done" =>
           /\ Len(response[c]) = 1
           /\ (error[c] = NoError) = (result[c] # NoResult)
           /\ error[c] # NoError => response[c][1] = NormalizedEnvelope(error[c])

\* A dropSession call whose one invocation failed with an expiry error.
C6_Witness ==
  \E c \in Calls :
    /\ name[c] = DropSessionName
    /\ pc[c] = "done"
    /\ error[c] # NoError
    /\ isSessionExpired(error[c])

\* A well-formed ResponseEnvelope: one text block.
WellFormed(envelope) ==
  /\ Len(envelope.content) = 1
  /\ envelope.content[1].type = "text"
  /\ DOMAIN envelope \subseteq {"content", "isError"}

\* C7: when every awaited remote call eventually settles, every request
\* eventually returns, with exactly one well-formed envelope, and no handler
\* ever ends with an unhandled failure.
C7_EveryCallReturns ==
  /\ [](\A c \in Calls :
          /\ pc[c] # "unhandled"
          /\ Len(response[c]) = (IF pc[c] = "done" THEN 1 ELSE 0)
          /\ pc[c] = "done" => WellFormed(response[c][1]))
  /\ \A c \in Calls : (pc[c] # "idle") ~> (pc[c] = "done")

\* A call that returned one envelope after its reconnect failed.
C7_Witness ==
  \E c \in Calls :
    /\ ReconnectFailed(c)
    /\ reconnectError[c] # NoError
    /\ Len(response[c]) = 1

\* The JSON text {"status":"healthy","timestamp":"<ts>"}
HealthPayload(ts) ==
  <<"{","\"","s","t","a","t","u","s","\"",":","\"","h","e","a","l","t","h","y","\"",",","\"","t","i","m","e","s","t","a","m","p","\"",":","\"">> \o ts \o <<"\"","}">>

\* YYYY-MM-DDTHH:mm:ss.sssZ
IsIsoTime(ts) ==
  /\ Len(ts) = 24
  /\ ts[5] = "-" /\ ts[8] = "-" /\ ts[11] = "T"
  /\ ts[14] = ":" /\ ts[17] = ":" /\ ts[20] = "." /\ ts[24] = "Z"
  /\ \A i \in (1..23) \ {5, 8, 11, 14, 17, 20} :
       \E k \in 1..Len(DigitChars) : ts[i] = DigitChars[k]

\* C8: in every session state, and whatever other calls are doing, a
\* healthcheck call consists of exactly one dispatch that invokes no handler
\* and starts no reconnect, succeeds with the payload
\* {status: "healthy", timestamp: <ISO time>}, and none of its steps changes
\* the session.
C8_Healthcheck ==
  /\ [](\A c \in Calls :
          name[c] = HealthcheckName =>
            /\ trace[c] = << [op |-> "dispatch", name |-> HealthcheckName, args |-> args[c]] >>
            /\ attempt[c] = 0
            /\ error[c] = NoError
            /\ pc[c] \in {"dispatch_await", "done"}
            /\ pc[c] = "done" =>
                 \E ms \in 0..MaxClock :
                   /\ IsIsoTime(toISOString(ms))
                   /\ response[c] = << SuccessEnvelope(HealthPayload(toISOString(ms))) >>)
  /\ [][\A c \in Calls :
          ((name[c] = HealthcheckName \/ name'[c] = HealthcheckName) /\ pc'[c] # pc[c])
          => session' = session]_vars

\* A healthcheck that returned while the session is expired and another
\* call is in the middle of its reconnect sequence.
C8_Witness ==
  \E c, d \in Calls :
    /\ name[c] = HealthcheckName
    /\ pc[c] = "done"
    /\ session.conn = "expired"
    /\ pc[d] = "login_await"

\* Call c has returned because a dispatch failed and no reconnect followed.
FailedAtDispatch(c) ==
  /\ pc[c] = "done"
  /\ name[c] \notin AUTH_TOOLS
  /\ result[c] = NoResult
  /\ trace[c][Len(trace[c])].op \in {"dispatch", "provider"}

\* C9: the envelope of a call that ends with a failed dispatch is the
\* normalized envelope of that dispatch's failure and of nothing else: the
\* same for a failure of the first dispatch and for the same failure of the
\* second dispatch after a successful reconnect, and for a first-dispatch
\* failure whose reconnect failed. A second-dispatch failure for which the
\* expiry predicate is true is returned without a further reconnect.
C9_RetryTransparent ==
  \A c \in Calls :
    /\ FailedAtDispatch(c) =>
         /\ response[c] = << NormalizedEnvelope(error[c]) >>
         /\ attempt[c] = 1 =>
              /\ Count(trace[c], "dispatch") = 2
              /\ Count(trace[c], "dropSession") = 1
              /\ Count(trace[c], "login") = 1
    /\ ReconnectFailed(c) => response[c] = << NormalizedEnvelope(error[c]) >>

\* A retried call whose second dispatch failed with a structured expiry
\* error.
C9_Witness ==
  \E c \in Calls :
    /\ FailedAtDispatch(c)
    /\ attempt[c] = 1
    /\ error[c].cls = "McpError"
    /\ isSessionExpired(error[c])

\* Call c has returned the envelope of a failure: of its auth invocation, of
\* a dispatch, or of the first dispatch when the reconnect failed.
ReturnedFailure(c) == pc[c] = "done" /\ result[c] = NoResult

\* The JSON text {"error":"Internal server error","code":-32603}
InternalErrorPayload == <<"{","\"","e","r","r","o","r","\"",":","\"","I","n","t","e","r","n","a","l"," ","s","e","r","v","e","r"," ","e","r","r","o","r","\"",",","\"","c","o","d","e","\"",":","-","3","2","6","0","3","}">>

\* The JSON text {"error":"<message>","code":<code>}, for a message without
\* characters that JSON escapes
ErrorPayload(message, code) ==
  <<"{","\"","e","r","r","o","r","\"",":","\"">> \o message \o <<"\"",",","\"","c","o","d","e","\"",":">> \o NumberToString(code) \o <<"}">>

\* C10: the envelope of every failure has isError = true; for a structured
\* protocol error it carries exactly the failure's message and code; for
\* every other failure, values that are no errors included, it carries the
\* fixed message "Internal server error" with the internal-error code and no
\* part of the failure's own message.
C10_ErrorNormalization ==
  \A c \in Calls :
    ReturnedFailure(c) =>
      LET envelope == response[c][1]
          text     == envelope.content[1].text
      IN  /\ envelope.isError = TRUE
          /\ Len(envelope.content) = 1
          /\ IF error[c].cls = "McpError"
             THEN text = ErrorPayload(error[c].message, error[c].code)
             ELSE /\ text = InternalErrorPayload
                  /\ ~includes(text, error[c].message)

\* A call that failed with a thrown value that is no error.
C10_Witness ==
  \E c \in Calls :
    /\ ReturnedFailure(c)
    /\ error[c].cls = "value"


----------------------------------------------------------------------------
\* The codec

\* The envelope carries the isError flag.
IsErrorEnvelope(envelope) == "isError" \in DOMAIN envelope /\ envelope.isError = TRUE

\* Call c got a value that JSON.stringify, with the replacer, cannot encode.
EncodingFailed(c) == result[c] # NoResult /\ ~Stringify(result[c], TRUE).ok

\* The JSON text {"error":"Failed to serialize result","code":-32603}
FailedToSerializePayload == <<"{","\"","e","r","r","o","r","\"",":","\"","F","a","i","l","e","d"," ","t","o"," ","s","e","r","i","a","l","i","z","e"," ","r","e","s","u","l","t","\"",",","\"","c","o","d","e","\"",":","-","3","2","6","0","3","}">>

\* C11: when the value a successful dispatch (or session-management
\* operation) resolved with cannot be serialized, the call still returns: its
\* one envelope has isError = true and the internal-error code, and it is the
\* envelope the error normalizer produces for the internal-error failure
\* "Failed to serialize result"; the handler never ends with a failure.
C11_SerializationFailure ==
  \A c \in Calls :
    EncodingFailed(c) =>
      /\ pc[c] = "done"
      /\ Len(response[c]) = 1
      /\ IsErrorEnvelope(response[c][1])
      /\ response[c][1].content[1].text = FailedToSerializePayload
      /\ response[c][1] = NormalizedEnvelope(McpError(InternalError, FailedToSerializeText))

C11_Witness ==
  \E c \in Calls :
    /\ pc[c] = "done"
    /\ name[c] = LockName
    /\ result[c] = JsObject(<< <<<<"s","e","l","f">>, JsCircular>> >>)
    /\ IsErrorEnvelope(response[c][1])

\* The digit strings of the bigint-valued fields of an object.
BigIntFields(v) ==
  IF v.t # "object" THEN {}
  ELSE {v.props[i][2].digits : i \in {j \in 1..Len(v.props) : v.props[j][2].t = "bigint"}}

\* Every field of the object is a string, a number or a bigint.
PlainFields(v) ==
  /\ v.t = "object"
  /\ \A i \in 1..Len(v.props) : v.props[i][2].t \in {"string", "number", "bigint"}

\* C12: for every operation, session-management operations included, a
\* result object with a bigint field (an integer beyond the safe-integer
\* range) is encoded without failure, and the text of the success envelope
\* contains the value's decimal digits as a quoted JSON string.
C12_BigIntAsString ==
  \A c \in Calls :
    (pc[c] = "done" /\ PlainFields(result[c]) /\ BigIntFields(result[c]) # {}) =>
      /\ Len(response[c]) = 1
      /\ "isError" \notin DOMAIN response[c][1]
      /\ \A digits \in BigIntFields(result[c]) :
           includes(response[c][1].content[1].text, <<"\"">> \o digits \o <<"\"">>)

C12_Witness ==
  \E c \in Calls :
    /\ pc[c] = "done"
    /\ name[c] = LockName
    /\ response[c] = << SuccessEnvelope(<<"{","\"","i","d","\"",":","\"","9","0","0","7","1","9","9","2","5","4","7","4","0","9","9","3","\"","}">>) >>

\* C20: a value that cannot be serialized never causes a retry. In the step
\* in which a dispatch (first or second) resolves with such a value the call
\* returns its error envelope: nothing is dispatched, dropped or logged in
\* after it and the attempt counter stays, whatever message the failure of
\* JSON.stringify carries.
C20_SerializationNotRetried ==
  [][\A c \in Calls :
       (result[c] = NoResult /\ result'[c] # NoResult /\ ~Stringify(result'[c], TRUE).ok) =>
         /\ pc'[c] = "done"
         /\ trace'[c] = trace[c]
         /\ attempt'[c] = attempt[c]
         /\ session' = AfterAuth(session, name[c], TRUE)
         /\ Len(response'[c]) = 1
         /\ IsErrorEnvelope(response'[c][1])]_vars

\* A first dispatch resolved with a value whose toJSON throws an error with
\* an expiry phrase in its message; the call returned after that one dispatch.
C20_Witness ==
  \E c \in Calls :
    /\ pc[c] = "done"
    /\ name[c] = LockName
    /\ attempt[c] = 0
    /\ EncodingFailed(c)
    /\ isSessionExpired(Stringify(result[c], TRUE).error)
    /\ OpsOf(trace[c], ProtocolOps) = <<"dispatch">>
    /\ IsErrorEnvelope(response[c][1])


----------------------------------------------------------------------------
\* Reconnect

\* In this step the first dispatch of call c fails with an expiry failure.
FirstDispatchExpires(c) ==
  /\ pc[c] = "dispatch_await"
  /\ attempt[c] = 0
  /\ error'[c] # NoError
  /\ isSessionExpired(error'[c])

\* Call c is inside its reconnect sequence.
Reconnecting(c) == pc[c] \in {"drop_await", "login_await"}

\* C16: reconnect is not mutually exclusive. A call whose first dispatch fails
\* with an expiry failure issues its own dropSession in that step, whether or
\* not another call is inside a reconnect sequence, and when that dropSession
\* settles it issues its own login; no step of one call adds to or takes from
\* another call's steps. (That two sequences are in progress at the same time,
\* with two drops and two logins in total, is the witness.)
C16_ReconnectPerCall ==
  [][\A c \in Calls :
       /\ FirstDispatchExpires(c) =>
            /\ pc'[c] = "drop_await"
            /\ trace'[c] = Append(trace[c], [op |-> "dropSession"])
       /\ (pc[c] = "drop_await" /\ pc'[c] # "drop_await") =>
            /\ pc'[c] = "login_await"
            /\ Count(trace'[c], "dropSession") = 1
            /\ Count(trace'[c], "login") = 1
       /\ (pc'[c] # pc[c] /\ pc'[c] # "idle") =>
            \A d \in Calls \ {c} : trace'[d] = trace[d] /\ pc'[d] = pc[d]]_vars

C16_Witness ==
  \E c, d \in Calls :
    /\ c # d
    /\ pc[c] = "login_await" /\ pc[d] = "login_await"
    /\ name[c] \notin AUTH_TOOLS /\ name[d] \notin AUTH_TOOLS
    /\ Count(trace[c], "dropSession") + Count(trace[d], "dropSession") = 2
    /\ Count(trace[c], "login") + Count(trace[d], "login") = 2

\* The steps of a reconnect sequence.
ReconnectOps == {"dropSession", "setStateful", "login"}

IsPrefix(s, t) == Len(s) <= Len(t) /\ SubSeq(t, 1, Len(s)) = s

\* C17: every reconnect sequence runs dropSession, the setting of the stateful
\* flag and login in this order; when dropSession settles, with success or
\* with a failure, the client is stateful and login is awaited; the sequence
\* fails exactly when login fails, and otherwise the call dispatches again.
C17_ReconnectSequence ==
  /\ [](\A c \in Calls :
          IsPrefix(OpsOf(trace[c], ReconnectOps), <<"dropSession", "setStateful", "login">>))
  /\ [][\A c \in Calls :
          /\ (pc[c] = "drop_await" /\ pc'[c] # "drop_await") =>
               /\ pc'[c] = "login_await"
               /\ session'.stateful = "stateful"
               /\ \E ok \in BOOLEAN :
                    trace'[c] = trace[c] \o << [op |-> "dropSettled", ok |-> ok],
                                               [op |-> "setStateful"], [op |-> "login"] >>
               /\ response'[c] = response[c]
          /\ (pc[c] = "login_await" /\ pc'[c] # "login_await") =>
               /\ (reconnectError'[c] # NoError) <=> (pc'[c] = "done")
               /\ (reconnectError'[c] = NoError) <=>
                    (pc'[c] = "dispatch_await" /\ Count(trace'[c], "dispatch") = 2)]_vars

\* dropSession failed, login succeeded, and the call dispatched again.
C17_Witness ==
  \E c \in Calls :
    /\ attempt[c] = 1
    /\ [op |-> "dropSettled", ok |-> FALSE] \in {trace[c][i] : i \in 1..Len(trace[c])}
    /\ OpsOf(trace[c], ReconnectOps) = <<"dropSession", "setStateful", "login">>
    /\ session.stateful = "stateful"
    /\ reconnectError[c] = NoError

\* The phrase occurs in s when letter case is ignored (phrase in lower case).
ContainsIgnoringCase(s, phrase) ==
  \E i \in 0..(Len(s) - Len(phrase)) :
    \A k \in 1..Len(phrase) : ToLowerChar(s[i + k]) = phrase[k]

\* The session-expiry predicate as specified.
ExpiryAsSpecified(e) ==
  \/ e.csrf
  \/ /\ e.cls \in {"McpError", "Error"}
     /\ \/ ContainsIgnoringCase(e.message, <<"s","e","s","s","i","o","n"," ","t","i","m","e","d"," ","o","u","t">>)
        \/ ContainsIgnoringCase(e.message, <<"c","s","r","f"," ","t","o","k","e","n">>)

\* C18: for every failure of a first dispatch, whether a handler, the ADT
\* client or the routing step (unknown name) raised it, the call starts a
\* reconnect exactly when the failure is classified as a CSRF error or is an
\* error whose message contains "session timed out" or "csrf token" in any
\* letter case; the predicate of the code is true for exactly these failures.
C18_ExpiryPredicate ==
  \A c \in Calls :
    (name[c] \notin AUTH_TOOLS /\ attempt[c] = 0 /\ error[c] # NoError) =>
      /\ isSessionExpired(error[c]) <=> ExpiryAsSpecified(error[c])
      /\ (Count(trace[c], "dropSession") = 1) <=> ExpiryAsSpecified(error[c])

\* A handler's structured error with the phrase in mixed case started a
\* reconnect.
C18_Witness ==
  \E c \in Calls :
    /\ name[c] = LockName
    /\ pc[c] = "drop_await"
    /\ error[c] = McpError(InternalError, <<"S","e","s","s","i","o","n"," ","T","i","m","e","d"," ","O","u","t">>)

\* C19: under every interleaving, a call issues its second dispatch in the
\* very step in which the login of its own reconnect settles with success:
\* the session is logged in at that moment, and no dropSession (of another
\* call's reconnect or of a session-management call) is issued in between.
C19_RedispatchLoggedIn ==
  [][\A c \in Calls :
       (Count(trace[c], "dispatch") = 1 /\ Count(trace'[c], "dispatch") = 2) =>
         /\ pc[c] = "login_await"
         /\ session' = AfterLogin(session, TRUE)
         /\ session'.conn = "active"
         /\ \A d \in Calls \ {c} : trace'[d] = trace[d] /\ pc'[d] = pc[d]
         /\ Count(trace'[c], "dropSession") = 1]_vars

\* Call c dispatched again while the dropSession of another call's reconnect,
\* issued earlier, is still awaited.
C19_Witness ==
  \E c, d \in Calls :
    /\ c # d
    /\ pc[c] = "dispatch_await" /\ attempt[c] = 1
    /\ session.conn = "active"
    /\ pc[d] = "drop_await"



----------------------------------------------------------------------------
\* The catalog and startup

\* The lists of the handlers, one after the other in the given order.
RECURSIVE FlattenTools(_, _)
FlattenTools(order, t) ==
  IF order = <<>> THEN <<>> ELSE t[Head(order)] \o FlattenTools(Tail(order), t)

\* No two descriptors of the list have the same name.
DistinctNames(list) ==
  \A i, j \in 1..Len(list) : i # j => list[i].name # list[j].name

\* C13: when two of the descriptors gathered from the handlers, or one of them
\* and the healthcheck descriptor, share a name, construction fails, so that
\* nothing is ever listed or called; hence the names of every ListTools reply
\* are pairwise distinct.
C13_UniqueNames ==
  /\ ~DistinctNames(FlattenTools(ProviderOrder, tools) \o << HealthcheckTool >>) =>
       /\ ~IsPrefix(ConstructorSteps, boot)
       /\ catalog = NoCatalog
       /\ \A c \in Calls : pc[c] = "idle"
  /\ catalog # NoCatalog => DistinctNames(catalog)

\* C14: every ListTools reply is the lists of the handlers, concatenated in
\* the one fixed order of the handlers, followed by the healthcheck
\* descriptor as the last element, whose input schema is the empty object
\* schema; whatever the handlers list and whatever state the session is in.
C14_CatalogOrder ==
  catalog # NoCatalog =>
    /\ SubSeq(catalog, 1, Len(catalog) - 1) = FlattenTools(ProviderOrder, tools)
    /\ catalog[Len(catalog)].name = <<"h","e","a","l","t","h","c","h","e","c","k">>
    /\ catalog[Len(catalog)].inputSchema = [type |-> "object", properties |-> <<>>]

\* A reply after the session expired, the transport handler listing nothing.
C14_Witness ==
  /\ session.conn = "expired"
  /\ tools["transportHandlers"] = <<>>
  /\ catalog = << Tool(LoginName), Tool(LockName), Tool(UnLockName), Tool(RevisionsName),
                  HealthcheckTool >>

\* The required variables that are unset or empty.
UnsetOrEmpty ==
  {v \in DOMAIN env : env[v] = Undefined \/ env[v] = EnvString(<<>>)}

\* C15: once construction has run, if some required variables are unset or
\* empty there is a startup error (a plain Error) whose message contains the
\* name of each of them and of no other required variable, the constructor
\* stopped at the environment check (no client, no handlers, no request
\* handler registered), and nothing is ever called or listed; if none is, there
\* is no startup error, all constructor steps ran, and construction leaves the
\* client in stateful mode.
C15_StartupCheck ==
  /\ [](boot # <<>> =>
          IF UnsetOrEmpty # {}
          THEN /\ startupError # NoError
               /\ startupError.cls = "Error"
               /\ \A v \in DOMAIN env :
                    includes(startupError.message, v) <=> v \in UnsetOrEmpty
               /\ boot = << "checkEnv" >>
               /\ session = NoSession
               /\ catalog = NoCatalog
               /\ \A c \in Calls : pc[c] = "idle"
          ELSE /\ startupError = NoError
               /\ IsPrefix(ConstructorSteps, boot))
  /\ [][(boot = <<>> /\ boot' # <<>> /\ UnsetOrEmpty = {}) =>
          session' = [stateful |-> "stateful", conn |-> "disconnected"]]_vars

\* SAP_URL is unset and SAP_PASSWORD is empty; construction has failed.
C15_Witness ==
  /\ env[SAP_URL] = Undefined
  /\ env[SAP_USER] = EnvString(<<"x">>)
  /\ env[SAP_PASSWORD] = EnvString(<<>>)
  /\ boot = << "checkEnv" >>
  /\ startupError = Error(<<"M","i","s","s","i","n","g"," ","r","e","q","u","i","r","e","d"," ","e","n","v","i","r","o","n","m","e","n","t"," ","v","a","r","i","a","b","l","e","s",":"," ","S","A","P","_","U","R","L",","," ","S","A","P","_","P","A","S","S","W","O","R","D">>)


----------------------------------------------------------------------------
\* The end of the retry loop

\* C21: the return after the retry loop is never reached. No call takes the
\* fall-through step and the loop counter never reaches the loop bound; a
\* dispatch of the first iteration that settles makes the call return or
\* start its reconnect, a reconnect that ends makes the call return (login
\* failed) or begin the second iteration (login succeeded), and a dispatch of
\* the second iteration that settles makes the call return, whatever it
\* settled with.
C21_FallThroughUnreachable ==
  /\ [](\A c \in Calls :
          /\ Count(trace[c], "fallThrough") = 0
          /\ attempt[c] <= 1)
  /\ [][\A c \in Calls :
          /\ (pc[c] = "dispatch_await" /\ pc'[c] # "dispatch_await" /\ attempt[c] = 0) =>
               /\ pc'[c] \in {"done", "drop_await"}
               /\ attempt'[c] = 0
          /\ (pc[c] = "login_await" /\ pc'[c] # "login_await") =>
               \/ pc'[c] = "done" /\ attempt'[c] = 0 /\ reconnectError'[c] # NoError
               \/ /\ pc'[c] = "dispatch_await" /\ attempt'[c] = 1
                  /\ reconnectError'[c] = NoError
                  /\ Count(trace'[c], "dispatch") = 2
          /\ (pc[c] = "dispatch_await" /\ pc'[c] # "dispatch_await" /\ attempt[c] = 1) =>
               /\ pc'[c] = "done"
               /\ trace'[c] = trace[c]
               /\ Len(response'[c]) = 1]_vars

\* The second iteration's dispatch failed with another expiry failure of a
\* plain Error, and the call returned the envelope of that failure.
C21_Witness ==
  \E c \in Calls :
    /\ pc[c] = "done"
    /\ attempt[c] = 1
    /\ result[c] = NoResult
    /\ error[c] = Error(<<"b","a","d"," ","c","s","r","f"," ","t","o","k","e","n">>)
    /\ OpsOf(trace[c], ProtocolOps \cup {"fallThrough"}) =
         <<"dispatch", "dropSession", "login", "dispatch">>
    /\ Len(response[c]) = 1

====
